---- MODULE Spec2Model ----
(***************************************************************************)
(* Model of here_xyz.py: upload_geo_data() and _get_here_iml().            *)
(*                                                                         *)
(* One run of upload_geo_data is a sequential program; every remote call   *)
(* (lookup, creation, search, delete, write) and every file operation      *)
(* (open, geojson.load) is one step whose outcome (return or raise) is     *)
(* chosen by the environment.  The remote layer is the sequence `remote`   *)
(* of the identifiers of the features it holds, in the order a search      *)
(* returns them.                                                           *)
(***************************************************************************)
EXTENDS Integers, Sequences, FiniteSets

\* ---------------------------------------------------------------- bounds
MaxRemote == 205          \* largest number of features in the remote layer
MaxFileFeatures == 3      \* largest number of features in the local file

\* ------------------------------------------------------------- constants
HERE_FEATURE_IDS_CHUNK_SIZE == 100

\* identifiers the features of the local file are drawn from
FileIds == {1, 2}
\* messages of the exceptions the two provisioning calls can raise
LookupErrors == {"lookup: not found", "lookup: timeout"}
CreateErrors == {"create: conflict", "create: denied"}

VARIABLES
    pc,                  \* position in upload_geo_data / _get_here_iml
    failure,             \* the call whose exception ended the run ("none")
    refresh,             \* argument refresh
    file,                \* the local file at geo_data_file_path
    layerExists,         \* the remote catalog and layer exist
    remote,              \* identifiers of the features in the remote layer, in search order
    iml,                 \* local iml: "none", "lookup" or "new" (its origin)
    lookupRes,           \* outcome of IML.from_catalog_hrn_and_layer_id
    createRes,           \* outcome of IML.new
    error,               \* local `error` bound by the except clauses
    exitMsg,             \* argument of sys.exit
    lookupCalls,         \* number of lookup calls issued
    createCalls,         \* number of IML.new calls issued
    searchCalls,         \* number of search_features calls issued
    opens,               \* number of geo_data_file_path.open calls
    feature_ids,         \* local feature_ids
    feature_ids_chunks,  \* local feature_ids_chunks
    chunkIdx,            \* index of the chunk the for loop is at (1-based)
    deletes,             \* arguments of the delete_features calls, in order
    geo_data,            \* local geo_data
    writes               \* arguments of the write_features calls, in order

vars == <<pc, failure, refresh, file, layerExists, remote, iml, lookupRes,
          createRes, error, exitMsg, lookupCalls, createCalls, searchCalls,
          opens, feature_ids, feature_ids_chunks, chunkIdx, deletes,
          geo_data, writes>>

\* ------------------------------------------------------------ helpers
Min(a, b) == IF a < b THEN a ELSE b

Range(s) == {s[i] : i \in DOMAIN s}

RECURSIVE Flatten(_)
Flatten(ss) == IF ss = <<>> THEN <<>> ELSE Head(ss) \o Flatten(Tail(ss))

\* Python slice s[i:j] for 0 <= i <= j (0-based, end exclusive, clipped)
Slice(s, i, j) == SubSeq(s, i + 1, Min(j, Len(s)))

\* Python range(start, stop, step) for step > 0, as a sequence
RECURSIVE PyRange(_, _, _)
PyRange(start, stop, step) ==
    IF start >= stop THEN <<>>
    ELSE <<start>> \o PyRange(start + step, stop, step)

\* [feature_ids[i:i + SIZE] for i in range(0, len(feature_ids), SIZE)]
ChunksDropTail(ids) ==
    LET starts == PyRange(0, Len(ids) - HERE_FEATURE_IDS_CHUNK_SIZE + 1,
                          HERE_FEATURE_IDS_CHUNK_SIZE)
    IN  [k \in DOMAIN starts |->
            Slice(ids, starts[k], starts[k] + HERE_FEATURE_IDS_CHUNK_SIZE)]

ChunksOverlap(ids) ==
    LET starts == PyRange(0, Len(ids), HERE_FEATURE_IDS_CHUNK_SIZE)
    IN  [k \in DOMAIN starts |->
            Slice(ids, starts[k], starts[k] + HERE_FEATURE_IDS_CHUNK_SIZE + 1)]

Chunks(ids) ==
    LET starts == PyRange(0, Len(ids), HERE_FEATURE_IDS_CHUNK_SIZE)
    IN  [k \in DOMAIN starts |->
            Slice(ids, starts[k], starts[k] + HERE_FEATURE_IDS_CHUNK_SIZE)]

\* the feature collection search_features(...).to_geojson() returns: every
\* feature of the layer
SearchResult(layer) ==
    [type |-> "FeatureCollection",
     features |-> [i \in DOMAIN layer |-> [id |-> layer[i]]]]

\* the layer once delete_features(chunk) has removed the identifiers of chunk
Removed(layer, chunk) ==
    LET gone == Range(chunk)
        Keep(x) == x \notin gone
    IN  SelectSeq(layer, Keep)

\* the layer once write_features(features) has stored the features: a
\* feature whose identifier the layer holds replaces it, any other is added
RECURSIVE Stored(_, _)
Stored(layer, feats) ==
    IF feats = <<>> THEN layer
    ELSE Stored(IF Head(feats).id \in Range(layer) THEN layer
                ELSE Append(layer, Head(feats).id),
                Tail(feats))

\* for feature in feature_collection['features']: feature_ids.append(feature['id'])
FeatureIds(fc) == [i \in DOMAIN fc.features |-> fc.features[i].id]

\* The local file: absent, zero bytes long, JSON text that parses to a falsy
\* value ("{}" or "null"), or a GeoJSON FeatureCollection.
SeqsUpTo(S, n) == UNION {[1..k -> S] : k \in 0..n}

Files ==
    {[kind |-> k, features |-> <<>>] :
        k \in {"absent", "zero_bytes", "empty_object", "null"}}
    \cup {[kind |-> "collection",
           features |-> [i \in DOMAIN s |-> [id |-> s[i]]]] :
             s \in SeqsUpTo(FileIds, MaxFileFeatures)}

\* geojson.load(geo_data_file) for a file that holds JSON text: the parsed
\* value.  A dict is the set of its keys with its features list; None is
\* the value of the JSON text null.
Load(f) ==
    CASE f.kind = "collection" ->
            [py |-> "dict", keys |-> {"type", "features"},
             features |-> f.features]
      [] f.kind = "empty_object" ->
            [py |-> "dict", keys |-> {}, features |-> <<>>]
      [] OTHER ->
            [py |-> "None", keys |-> {}, features |-> <<>>]

Unset == [py |-> "unset", keys |-> {}, features |-> <<>>]

\* Python truth value of `geo_data` in `if geo_data:`: None is false, a dict
\* is true iff it has at least one key
Truthy(v) == v.py = "dict" /\ v.keys # {}

\* where upload_geo_data continues once _get_here_iml has returned
AfterResolveAlwaysRefresh(r) == "search"

AfterResolve(r) == IF r THEN "search" ELSE "open"

\* ------------------------------------------------------------------ Init
Init ==
    /\ pc = "credentials"
    /\ failure = "none"
    /\ refresh \in BOOLEAN
    /\ file \in Files
    /\ layerExists \in BOOLEAN
    /\ \E n \in 0..MaxRemote :
          /\ remote = [i \in 1..n |-> i]
          /\ (~layerExists => n = 0)
    /\ iml = "none"
    /\ lookupRes = "none"
    /\ createRes = "none"
    /\ error = "none"
    /\ exitMsg = "none"
    /\ lookupCalls = 0
    /\ createCalls = 0
    /\ searchCalls = 0
    /\ opens = 0
    /\ feature_ids = <<>>
    /\ feature_ids_chunks = <<>>
    /\ chunkIdx = 0
    /\ deletes = <<>>
    /\ geo_data = Unset
    /\ writes = <<>>

\* --------------------------------------------------------------- actions
resolverVars == <<iml, lookupRes, createRes, error, exitMsg, lookupCalls,
                  createCalls, layerExists>>
refreshVars == <<searchCalls, feature_ids, feature_ids_chunks, chunkIdx,
                 deletes>>
uploadVars == <<opens, geo_data, writes>>

\* credentials = Credentials.from_credentials_file(here_creds_file_path)
LoadCredentials ==
    /\ pc = "credentials"
    /\ \/ pc' = "lookup" /\ failure' = failure
       \/ pc' = "error" /\ failure' = "credentials"
    /\ UNCHANGED <<refresh, file, remote, resolverVars, refreshVars,
                   uploadVars>>

\* try: iml = IML.from_catalog_hrn_and_layer_id(...)  except Exception as error
LookupLayerFallThrough ==
    /\ pc = "lookup"
    /\ lookupCalls' = lookupCalls + 1
    /\ \/ /\ layerExists
          /\ lookupRes' = "found"
          /\ iml' = "lookup"
          /\ error' = error
          /\ pc' = "create"
       \/ /\ lookupRes' = "failed"
          /\ \E e \in LookupErrors : error' = e
          /\ iml' = iml
          /\ pc' = "create"
    /\ UNCHANGED <<failure, refresh, file, remote, layerExists, createRes,
                   exitMsg, createCalls, refreshVars, uploadVars>>

LookupLayer ==
    /\ pc = "lookup"
    /\ lookupCalls' = lookupCalls + 1
    /\ \/ /\ layerExists
          /\ lookupRes' = "found"
          /\ iml' = "lookup"
          /\ error' = error
          /\ pc' = AfterResolve(refresh)
       \/ /\ lookupRes' = "failed"
          /\ \E e \in LookupErrors : error' = e
          /\ iml' = iml
          /\ pc' = "create"
    /\ UNCHANGED <<failure, refresh, file, remote, layerExists, createRes,
                   exitMsg, createCalls, refreshVars, uploadVars>>

\* try: iml = IML.new(...)  except Exception as error: sys.exit(...)
CreateLayerSwallow ==
    /\ pc = "create"
    /\ createCalls' = createCalls + 1
    /\ \/ /\ ~layerExists
          /\ createRes' = "created"
          /\ iml' = "new"
          /\ layerExists' = TRUE
          /\ pc' = AfterResolve(refresh)
          /\ UNCHANGED <<error, exitMsg, failure>>
       \/ /\ createRes' = "failed"
          /\ \E e \in CreateErrors : error' = e
          /\ pc' = AfterResolve(refresh)
          /\ UNCHANGED <<iml, layerExists, exitMsg, failure>>
    /\ UNCHANGED <<refresh, file, remote, lookupRes, lookupCalls,
                   refreshVars, uploadVars>>

CreateLayer ==
    /\ pc = "create"
    /\ createCalls' = createCalls + 1
    /\ \/ /\ ~layerExists
          /\ createRes' = "created"
          /\ iml' = "new"
          /\ layerExists' = TRUE
          /\ pc' = AfterResolve(refresh)
          /\ UNCHANGED <<error, exitMsg, failure>>
       \/ /\ createRes' = "failed"
          /\ \E e \in CreateErrors : error' = e /\ exitMsg' = e
          /\ failure' = "create"
          /\ pc' = "exited"
          /\ UNCHANGED <<iml, layerExists>>
    /\ UNCHANGED <<refresh, file, remote, lookupRes, lookupCalls,
                   refreshVars, uploadVars>>

\* feature_collection = iml.layer.search_features(...).to_geojson(), the
\* feature_ids loop and the feature_ids_chunks comprehension
SearchFeaturesSkipUpload ==
    /\ pc = "search"
    /\ searchCalls' = searchCalls + 1
    /\ \/ /\ feature_ids' = FeatureIds(SearchResult(remote))
          /\ feature_ids_chunks' = Chunks(feature_ids')
          /\ chunkIdx' = 1
          /\ pc' = IF feature_ids_chunks' = <<>> THEN "done" ELSE "delete"
          /\ failure' = failure
       \/ /\ pc' = "error"
          /\ failure' = "search"
          /\ UNCHANGED <<feature_ids, feature_ids_chunks, chunkIdx>>
    /\ UNCHANGED <<refresh, file, remote, resolverVars, deletes, uploadVars>>

SearchFeatures ==
    /\ pc = "search"
    /\ searchCalls' = searchCalls + 1
    /\ \/ /\ feature_ids' = FeatureIds(SearchResult(remote))
          /\ feature_ids_chunks' = Chunks(feature_ids')
          /\ chunkIdx' = 1
          /\ pc' = IF feature_ids_chunks' = <<>> THEN "open" ELSE "delete"
          /\ failure' = failure
       \/ /\ pc' = "error"
          /\ failure' = "search"
          /\ UNCHANGED <<feature_ids, feature_ids_chunks, chunkIdx>>
    /\ UNCHANGED <<refresh, file, remote, resolverVars, deletes, uploadVars>>

\* for chunk in feature_ids_chunks: iml.layer.delete_features(chunk)
\* A call that raises may or may not have removed its chunk.
DeleteFeaturesContinue ==
    /\ pc = "delete"
    /\ chunkIdx \in DOMAIN feature_ids_chunks
    /\ deletes' = Append(deletes, feature_ids_chunks[chunkIdx])
    /\ \/ /\ remote' = Removed(remote, feature_ids_chunks[chunkIdx])
          /\ chunkIdx' = chunkIdx + 1
          /\ pc' = IF chunkIdx' > Len(feature_ids_chunks)
                   THEN "open" ELSE "delete"
          /\ failure' = failure
       \/ /\ \/ remote' = remote
             \/ remote' = Removed(remote, feature_ids_chunks[chunkIdx])
          /\ chunkIdx' = chunkIdx + 1
          /\ pc' = IF chunkIdx' > Len(feature_ids_chunks)
                   THEN "open" ELSE "delete"
          /\ failure' = "delete"
    /\ UNCHANGED <<refresh, file, resolverVars, searchCalls, feature_ids,
                   feature_ids_chunks, uploadVars>>

DeleteFeatures ==
    /\ pc = "delete"
    /\ chunkIdx \in DOMAIN feature_ids_chunks
    /\ deletes' = Append(deletes, feature_ids_chunks[chunkIdx])
    /\ \/ /\ remote' = Removed(remote, feature_ids_chunks[chunkIdx])
          /\ chunkIdx' = chunkIdx + 1
          /\ pc' = IF chunkIdx' > Len(feature_ids_chunks)
                   THEN "open" ELSE "delete"
          /\ failure' = failure
       \/ /\ \/ remote' = remote
             \/ remote' = Removed(remote, feature_ids_chunks[chunkIdx])
          /\ chunkIdx' = chunkIdx
          /\ pc' = "error"
          /\ failure' = "delete"
    /\ UNCHANGED <<refresh, file, resolverVars, searchCalls, feature_ids,
                   feature_ids_chunks, uploadVars>>

\* with geo_data_file_path.open('r', encoding='utf-8') as geo_data_file:
OpenFileIgnoreMissing ==
    /\ pc = "open"
    /\ opens' = opens + 1
    /\ IF file.kind = "absent"
       THEN pc' = "done" /\ failure' = failure
       ELSE pc' = "load" /\ failure' = failure
    /\ UNCHANGED <<refresh, file, remote, resolverVars, refreshVars,
                   geo_data, writes>>

OpenFile ==
    /\ pc = "open"
    /\ opens' = opens + 1
    /\ IF file.kind = "absent"
       THEN pc' = "error" /\ failure' = "open"
       ELSE pc' = "load" /\ failure' = failure
    /\ UNCHANGED <<refresh, file, remote, resolverVars, refreshVars,
                   geo_data, writes>>

\* geo_data = geojson.load(geo_data_file); if geo_data:
LoadFileFirstFeature ==
    /\ pc = "load"
    /\ IF file.kind = "zero_bytes"
       THEN /\ pc' = "error"
            /\ failure' = "load"
            /\ geo_data' = geo_data
       ELSE /\ geo_data' = [Load(file) EXCEPT
                               !.features = SubSeq(@, 1, Min(1, Len(@)))]
            /\ pc' = IF Truthy(geo_data') THEN "write" ELSE "done"
            /\ failure' = failure
    /\ UNCHANGED <<refresh, file, remote, resolverVars, refreshVars, opens,
                   writes>>

LoadFile ==
    /\ pc = "load"
    /\ IF file.kind = "zero_bytes"
       THEN /\ pc' = "error"
            /\ failure' = "load"
            /\ geo_data' = geo_data
       ELSE /\ geo_data' = Load(file)
            /\ pc' = IF Truthy(geo_data') THEN "write" ELSE "done"
            /\ failure' = failure
    /\ UNCHANGED <<refresh, file, remote, resolverVars, refreshVars, opens,
                   writes>>

\* iml.layer.write_features(features=geo_data)
\* A call that raises may or may not have stored the features.
WriteFeatures ==
    /\ pc = "write"
    /\ writes' = Append(writes, geo_data)
    /\ \/ /\ remote' = Stored(remote, geo_data.features)
          /\ pc' = "done"
          /\ failure' = failure
       \/ /\ \/ remote' = remote
             \/ remote' = Stored(remote, geo_data.features)
          /\ pc' = "error"
          /\ failure' = "write"
    /\ UNCHANGED <<refresh, file, resolverVars, refreshVars, opens,
                   geo_data>>

Next ==
    \/ LoadCredentials
    \/ LookupLayer
    \/ CreateLayer
    \/ SearchFeatures
    \/ DeleteFeatures
    \/ OpenFile
    \/ LoadFile
    \/ WriteFeatures

Spec == Init /\ [][Next]_vars

TypeOK ==
    /\ pc \in {"credentials", "lookup", "create", "search", "delete", "open",
               "load", "write", "done", "error", "exited"}
    /\ failure \in {"none", "credentials", "create", "search", "delete",
                    "open", "load", "write"}
    /\ iml \in {"none", "lookup", "new"}
    /\ Range(remote) \subseteq (1..MaxRemote) \cup FileIds
    /\ Len(deletes) <= Len(feature_ids_chunks)
    /\ Len(writes) <= 1

\* ---------------------------------------------------------------- claims
Terminal == {"done", "error", "exited"}

\* C1: whenever the lookup call succeeds, _get_here_iml returns the handle
\* that lookup produced and IML.new is never called in that run.
C1_LookupFoundNoCreate ==
    lookupRes = "found" =>
        /\ createCalls = 0
        /\ createRes = "none"
        /\ iml = "lookup"
        /\ pc \notin {"lookup", "create", "exited"}

C1_Witness ==
    /\ lookupRes = "found"
    /\ lookupCalls = 1
    /\ pc \in {"search", "open"}

\* C2: whenever the lookup call fails, IML.new is attempted exactly once (no
\* retry); if it fails too the run ends in sys.exit with the message of the
\* creation error, no handle is bound, and no search, delete or write call
\* is ever issued.
C2_CreateOnceThenExit ==
    /\ createCalls <= 1
    /\ (lookupRes = "failed" /\ pc # "create" => createCalls = 1)
    /\ (createRes = "failed" =>
          /\ lookupRes = "failed"
          /\ pc = "exited"
          /\ iml = "none"
          /\ exitMsg \in CreateErrors
          /\ exitMsg = error
          /\ searchCalls = 0
          /\ deletes = <<>>
          /\ writes = <<>>)

C2_Witness ==
    /\ lookupRes = "failed"
    /\ createRes = "failed"
    /\ createCalls = 1
    /\ pc = "exited"

\* C3: for a local file that parses to a feature collection with an empty
\* features list, write_features is never called, whatever refresh is.
C3_EmptyCollectionNoWrite ==
    (file.kind = "collection" /\ file.features = <<>>) => writes = <<>>

\* C4 as stated: when the local file is zero bytes long or absent, the run
\* that reaches the file skips the write and ends in the success state.
C4_MissingFileCompletesNormally ==
    (file.kind \in {"absent", "zero_bytes"} /\ opens > 0 /\ pc \in Terminal)
        => (writes = <<>> /\ pc = "done")

\* C4 amended: when the local file is zero bytes long or absent, the write
\* call is never issued and the run never ends in the success state: once
\* the file is reached, open (absent file) or geojson.load (zero bytes)
\* raises, the exception is not caught and the run ends in the error state.
C4_MissingFileRaises ==
    file.kind \in {"absent", "zero_bytes"} =>
        /\ writes = <<>>
        /\ pc \notin {"write", "done"}
        /\ (opens > 0 /\ pc # "load" =>
              /\ pc = "error"
              /\ failure = IF file.kind = "absent" THEN "open" ELSE "load")

C4_Witness ==
    /\ file.kind \in {"absent", "zero_bytes"}
    /\ opens = 1
    /\ pc = "error"
    /\ failure \in {"open", "load"}

\* C5: for the N identifiers the search returned, feature_ids_chunks has
\* exactly ceil(N/100) batches, every batch is non-empty and of size 100
\* except possibly the last (N mod 100 if nonzero, else 100), and the
\* batches concatenated in order are the identifier sequence itself.
C5_ChunksPartition ==
    LET N == Len(feature_ids)
        S == HERE_FEATURE_IDS_CHUNK_SIZE
        C == feature_ids_chunks
    IN  /\ Len(C) * S >= N
        /\ (Len(C) - 1) * S < N
        /\ \A k \in DOMAIN C :
              /\ Len(C[k]) > 0
              /\ (k < Len(C) => Len(C[k]) = S)
              /\ (k = Len(C) =>
                    Len(C[k]) = IF N % S # 0 THEN N % S ELSE S)
        /\ Flatten(C) = feature_ids

C5_Witness ==
    /\ searchCalls = 1
    /\ Len(feature_ids) = 2 * HERE_FEATURE_IDS_CHUNK_SIZE + 1
    /\ Len(feature_ids_chunks) = 3
    /\ Len(feature_ids_chunks[3]) = 1

\* C6: for a local file with N >= 1 features and every remote call
\* succeeding, write_features is called exactly once and its argument is the
\* whole parsed collection: the N features of the file, in file order, with
\* their identifiers.
C6_WriteOnceWholeCollection ==
    /\ Len(writes) <= 1
    /\ (pc = "done" /\ file.kind = "collection" /\ Len(file.features) >= 1 =>
          /\ Len(writes) = 1
          /\ writes[1].py = "dict"
          /\ writes[1].features = file.features)

C6_Witness ==
    /\ pc = "done"
    /\ file.kind = "collection"
    /\ Len(file.features) = 3
    /\ file.features[1].id # file.features[2].id
    /\ Len(writes) = 1

\* C7: with refresh = false no search call and no delete call is issued, and
\* no step of the run removes a feature from the remote layer.
C7_NoRefreshNoDelete ==
    /\ [](~refresh => (searchCalls = 0 /\ deletes = <<>>))
    /\ [][~refresh => Range(remote) \subseteq Range(remote')]_vars

C7_Witness ==
    /\ ~refresh
    /\ pc = "done"
    /\ Len(remote) >= 2 * HERE_FEATURE_IDS_CHUNK_SIZE
    /\ Len(writes) = 1

\* C8: with refresh = true and a search that returned no feature, the batch
\* list is empty, no delete call is issued, and the run goes straight on to
\* reading the file and, for a non-empty collection, to the write call.
C8_EmptySearchProceeds ==
    (refresh /\ searchCalls = 1 /\ failure # "search" /\ feature_ids = <<>>)
        => /\ feature_ids_chunks = <<>>
           /\ deletes = <<>>
           /\ pc \in {"open", "load", "write", "done", "error"}
           /\ (opens = 0 => pc = "open")
           /\ (pc = "error" => failure \in {"open", "load", "write"})
           /\ (pc = "done" /\ file.kind = "collection"
                /\ file.features # <<>> => Len(writes) = 1)

C8_Witness ==
    /\ refresh
    /\ searchCalls = 1
    /\ feature_ids = <<>>
    /\ pc = "done"
    /\ Len(writes) = 1
    /\ writes[1].features # <<>>

\* C9: delete calls are issued one batch at a time in batch order; when the
\* call for batch k raises, the run ends in the error state, no later batch
\* is deleted, the file is not opened, nothing is written, and the batches
\* before k stay deleted.
C9_DeleteFailureStopsRun ==
    /\ Len(deletes) <= Len(feature_ids_chunks)
    /\ \A i \in DOMAIN deletes : deletes[i] = feature_ids_chunks[i]
    /\ (failure = "delete" =>
          /\ pc = "error"
          /\ Len(deletes) = chunkIdx
          /\ opens = 0
          /\ geo_data = Unset
          /\ writes = <<>>
          /\ \A j \in 1..(chunkIdx - 1) :
                Range(feature_ids_chunks[j]) \cap Range(remote) = {})

C9_Witness ==
    /\ failure = "delete"
    /\ chunkIdx = 2
    /\ Len(feature_ids_chunks) = 3
    /\ Len(deletes) = 2
    /\ remote # <<>>

\* C10: in a refresh run the resolver is called once before any other remote
\* call and the write call comes only after every delete batch succeeded;
\* between the two phases every enumerated identifier has been passed to
\* exactly one delete call and the layer holds none of them, so a failure
\* there (unreadable file) ends the run with an empty layer and no upload.
C10_DeleteAllBeforeWrite ==
    /\ lookupCalls <= 1
    /\ ((searchCalls > 0 \/ deletes # <<>> \/ writes # <<>>) =>
          (lookupCalls = 1 /\ iml # "none"))
    /\ (refresh /\ writes # <<>> =>
          /\ searchCalls = 1
          /\ deletes = feature_ids_chunks
          /\ failure # "delete")
    /\ (refresh /\ (pc \in {"open", "load"} \/ failure \in {"open", "load"}) =>
          /\ Flatten(deletes) = feature_ids
          /\ Cardinality(Range(feature_ids)) = Len(feature_ids)
          /\ Range(feature_ids) \cap Range(remote) = {}
          /\ remote = <<>>
          /\ writes = <<>>)

C10_Witness ==
    /\ refresh
    /\ failure \in {"open", "load"}
    /\ pc = "error"
    /\ Len(deletes) = 3
    /\ remote = <<>>

====
